---- MODULE Spec2Model ----
(***************************************************************************)
(* Model of src/app.py: a Streamlit dashboard that keeps priced card       *)
(* records in a Supabase table.  The model follows one browser session:    *)
(* script runs (load_data, the message banner, the filter/view projection, *)
(* the autosave trigger), the sidebar submission (add_card) and the        *)
(* reconciliation of the grid's positional edits (save_incremental_changes)*)
(*                                                                         *)
(* A number of the grid ("num") or a Python float ("float") is kept in     *)
(* tenths (99.0 is 990, 2.5 is 25) so that int() truncation is visible; a  *)
(* Python int ("int"), a quantity and an id are plain integers.            *)
(***************************************************************************)
EXTENDS Integers, Sequences, FiniteSets, TLC

VARIABLES
    supabase,             \* connect_supabase(): TRUE = a client, FALSE = None (cached for the session)
    store,                \* rows of the table "cards"
    response,             \* response.data handed to load_data when the loader is run on its own
    df,                   \* module-level df of the last script run
    search_set,           \* st.session_state["search_set_input"]
    data_editor,          \* st.session_state["data_editor"]
    autosave_successful,  \* st.session_state['autosave_successful']
    autosave_message,     \* st.session_state['autosave_message']
    pc,                   \* "rerun": a script run is due; "idle": the page waits for the user
    last,                 \* the last call of save_incremental_changes (arguments and result)
    lastAdd,              \* the last call of add_card (arguments and result)
    nSaves                \* number of calls of save_incremental_changes so far

vars == <<supabase, store, response, df, search_set, data_editor,
          autosave_successful, autosave_message, pc, last, lastAdd, nSaves>>

---------------------------------------------------------------------------
(* Bounds of the model *)

MaxId == 3
MaxEdits == 2
MaxDeletes == 1
MaxRich == 1
MaxSaves == 1
MaxRows == 4

---------------------------------------------------------------------------
(* Python values as the grid, the store and the payloads hold them *)

None == [t |-> "none", n |-> 0, s |-> ""]
Num(n) == [t |-> "num", n |-> n, s |-> ""]
Str(s) == [t |-> "str", n |-> 0, s |-> s]
PyFloat(n) == [t |-> "float", n |-> n, s |-> ""]
PyInt(n) == [t |-> "int", n |-> n, s |-> ""]
Raise == [t |-> "raise", n |-> 0, s |-> ""]

D1 == "2024-01-05"
D2 == "2024-02-10"
Junk == "next week"
Today == "2024-03-01"

\* pd.to_datetime(errors='coerce') yields a timestamp for these and NaT otherwise
ParseableDates == {D1, D2, Today}

\* ORDER BY date: rank of a stored date string
DateOrd(d) == CASE d = D1 -> 1 [] d = D2 -> 2 [] d = Today -> 3 [] OTHER -> 4

\* strings Python's float() accepts, with their value in tenths
FloatStrings == ("3" :> 30) @@ ("3.5" :> 35)
\* strings Python's int() accepts
IntStrings == ("3" :> 3)

pd_notna(v) == v.t # "none"

py_float(v) ==
    CASE v.t \in {"num", "float"} -> PyFloat(v.n)
      [] v.t = "int" -> PyFloat(10 * v.n)
      [] v.t = "str" -> IF v.s \in DOMAIN FloatStrings THEN PyFloat(FloatStrings[v.s]) ELSE Raise
      [] OTHER -> Raise

\* int() of a number truncates toward zero
py_int(v) ==
    CASE v.t \in {"num", "float"} ->
            PyInt(IF v.n >= 0 THEN v.n \div 10 ELSE -((-v.n) \div 10))
      [] v.t = "int" -> v
      [] v.t = "str" -> IF v.s \in DOMAIN IntStrings THEN PyInt(IntStrings[v.s]) ELSE Raise
      [] OTHER -> Raise

py_str(v) ==
    CASE v.t = "str" -> v
      [] v.t = "none" -> Str("None")
      [] OTHER -> Str(ToString(v.n))

\* truthiness of a value (if value:)
truthy(v) ==
    CASE v.t = "none" -> FALSE
      [] v.t = "str" -> v.s # ""
      [] OTHER -> v.n # 0

---------------------------------------------------------------------------
(* The store's select and load_data *)

Max(S) == CHOOSE x \in S : \A y \in S : y <= x

\* a stored row as the select returns it: the id cell is whatever the table holds
Cell(r) == [id |-> PyInt(r.id), date |-> r.date, price |-> r.price,
            quantity |-> r.quantity, card_set |-> r.card_set]

\* the last-dated rows of S, and among them one of the largest id
Latest(S, top) == {r \in S : DateOrd(r.date) = top}
First(L) == CHOOSE r \in L : r.id = Max({q.id : q \in L})

RECURSIVE OrderByDateDesc(_)
PutFirst(r, S) == <<r>> \o OrderByDateDesc(S \ {r})
OrderByDateDesc(S) ==
    IF S = {} THEN <<>>
    ELSE PutFirst(First(Latest(S, Max({DateOrd(r.date) : r \in S}))), S)

\* select("*").order("date", desc=True): rows of equal date come in an order the
\* store picks; the view is re-sorted by id before any position is assigned
Cells(o) == [i \in 1..Len(o) |-> Cell(o[i])]
SelectAll(st) == Cells(OrderByDateDesc(st))

\* pd.to_numeric(errors='coerce').fillna(0).astype(int)
to_numeric_id(c) ==
    CASE c.t = "int" -> c.n
      [] c.t \in {"num", "float"} -> py_int(c).n
      [] c.t = "str" -> IF c.s \in DOMAIN FloatStrings
                        THEN py_int(PyFloat(FloatStrings[c.s])).n ELSE 0
      [] OTHER -> 0

LoadRow(c) == [id |-> to_numeric_id(c.id), date |-> c.date, price |-> c.price,
               quantity |-> c.quantity, card_set |-> c.card_set,
               date_dt |-> c.date \in ParseableDates]

load_data(conn, selOk, resp) ==
    IF ~conn THEN <<>>
    ELSE IF ~selOk THEN <<>>
    ELSE [i \in 1..Len(resp) |-> LoadRow(resp[i])]

\* df = df.dropna(subset=['date_dt'])
IsDated(r) == r.date_dt
PrepareDf(d) == SelectSeq(d, IsDated)

---------------------------------------------------------------------------
(* Filter and view projection *)

\* str.contains on the card_set values of the model (strings of at most one letter)
Contains(hay, needle) == needle = "" \/ hay = needle

\* the first index of d that holds the id top
IndexOf(d, top) == CHOOSE i \in 1..Len(d) : d[i].id = top /\ \A j \in 1..(i-1) : d[j].id # top

RECURSIVE sort_values_id_desc(_)
MoveFirst(d, k) == <<d[k]>> \o sort_values_id_desc(SubSeq(d, 1, k-1) \o SubSeq(d, k+1, Len(d)))
sort_values_id_desc(d) ==
    IF d = <<>> THEN <<>>
    ELSE MoveFirst(d, IndexOf(d, Max({d[i].id : i \in 1..Len(d)})))

ViewRow(r) == [id |-> r.id, date |-> r.date, price |-> r.price,
               quantity |-> r.quantity, card_set |-> r.card_set]

FilteredDf(d, needle) ==
    IF needle = "" THEN d
    ELSE LET keep(r) == Contains(r.card_set, needle) IN SelectSeq(d, keep)

\* display_df_editor: filtered, sorted by id descending, index reset to 0..n-1
ViewRows(f) == [i \in 1..Len(f) |-> ViewRow(f[i])]
DisplayDf(d, needle) == ViewRows(sort_values_id_desc(FilteredDf(d, needle)))

\* displayed_df.iloc[i] for a 0-based position i
iloc(view, i) == view[i + 1]

---------------------------------------------------------------------------
(* The store's delete and upsert *)

Ids(st) == {r.id : r \in st}

\* delete().in_('id', ids)
ApplyDelete(st, ids) == {r \in st : r.id \notin ids}

\* the text a payload value is stored as
Text(v) == IF v.t = "str" THEN v.s ELSE ToString(v.n)

\* ON CONFLICT (id) DO UPDATE: only the columns of the payload are overwritten
Merge(r, pl) ==
    [id |-> r.id,
     date |-> IF "date" \in DOMAIN pl THEN Text(pl["date"]) ELSE r.date,
     price |-> IF "price" \in DOMAIN pl THEN pl["price"].n ELSE r.price,
     quantity |-> IF "quantity" \in DOMAIN pl THEN pl["quantity"].n ELSE r.quantity,
     card_set |-> IF "card_set" \in DOMAIN pl THEN Text(pl["card_set"]) ELSE r.card_set]

\* a payload whose id is not in the table is inserted; absent columns are empty
NewRow(pl) == Merge([id |-> pl["id"].n, date |-> "", price |-> 0, quantity |-> 0,
                     card_set |-> ""], pl)

\* upsert(rows): rows is the list data_to_upsert, held by the position it came from
MergeAny(r, hit) == IF hit = {} THEN r ELSE Merge(r, CHOOSE pl \in hit : TRUE)
UpsertAll(st, pls) ==
    {MergeAny(r, {pl \in pls : pl["id"].n = r.id}) : r \in st}
       \cup {NewRow(pl) : pl \in {q \in pls : q["id"].n \notin Ids(st)}}
ApplyUpsert(st, rows) == UpsertAll(st, {rows[p] : p \in DOMAIN rows})

---------------------------------------------------------------------------
(* save_incremental_changes *)

NoMessage == [kind |-> "none", updated |-> 0, deleted |-> 0]
SavedMessage(u, d) == [kind |-> "saved", updated |-> u, deleted |-> d]
FailedMessage == [kind |-> "failed", updated |-> 0, deleted |-> 0]

\* valid_indices = [i for i in deleted_indices if i < len(displayed_df)]
ValidIndices(displayed_df, deleted_indices) ==
    {i \in deleted_indices : i < Len(displayed_df)}

\* an iloc with a position past the end raises IndexError
IlocRaises(displayed_df, idxs) == \E i \in idxs : i >= Len(displayed_df)

\* mutant: displayed_df['id'].tolist() without the iloc[valid_indices]
IdsToDelete_WholeView(displayed_df, idxs) ==
    {displayed_df[i].id : i \in 1..Len(displayed_df)}

IdsToDelete(displayed_df, idxs) == {iloc(displayed_df, i).id : i \in idxs}

\* mutant: the loop without "if filtered_index in deleted_indices: continue"
AppliedPositions_NoDeleteWins(displayed_df, editor_state) ==
    {p \in DOMAIN editor_state.edited_rows : ~(p >= Len(displayed_df))}

\* mutant: the loop without "if filtered_index >= len(displayed_df): continue"
AppliedPositions_NoRangeCheck(displayed_df, editor_state) ==
    {p \in DOMAIN editor_state.edited_rows : ~(p \in editor_state.deleted_rows)}

\* the positions of edited_rows that pass both continue statements
AppliedPositions(displayed_df, editor_state) ==
    {p \in DOMAIN editor_state.edited_rows :
        /\ ~(p \in editor_state.deleted_rows)
        /\ ~(p >= Len(displayed_df))}

\* one pass of "for col, value in changes.items()"
Coerce(col, value, seeded) ==
    CASE col = "date" -> IF truthy(value) THEN value ELSE seeded
      [] col = "price" -> IF pd_notna(value) THEN py_float(value) ELSE PyFloat(0)
      [] col = "quantity" -> IF pd_notna(value) THEN py_int(value) ELSE PyInt(0)
      [] OTHER -> IF pd_notna(value) THEN py_str(value) ELSE Str("")

\* mutant: the fallback datetime.now() is never replaced by the original date
InitialDate_Now(row) == Str(Today)

\* initial_date_str
InitialDate(row) == IF row.date # "" THEN Str(row.date) ELSE Str(Today)

\* update_data for one edited position
Seed(row) == ("id" :> PyInt(row.id)) @@ ("date" :> InitialDate(row))
Overwrite(seed, changes) ==
    [c \in DOMAIN seed \cup DOMAIN changes |->
        IF c \in DOMAIN changes THEN Coerce(c, changes[c], seed["date"]) ELSE seed[c]]
UpdateData(displayed_df, p, changes) == Overwrite(Seed(iloc(displayed_df, p)), changes)

PayloadRaises(pl) == \E c \in DOMAIN pl : pl[c] = Raise

\* mutant: the edited positions are looked up in the view without its deleted
\* rows, as if the delete had been applied to the frame before the loop
DataToUpsert_ShiftedView(displayed_df, editor_state) ==
    LET gone == IdsToDelete(displayed_df,
                            ValidIndices(displayed_df, editor_state.deleted_rows))
        keep(r) == r.id \notin gone
        shifted == SelectSeq(displayed_df, keep)
    IN [p \in AppliedPositions(displayed_df, editor_state) |->
           UpdateData(IF p < Len(shifted) THEN shifted ELSE displayed_df, p,
                      editor_state.edited_rows[p])]

\* data_to_upsert
DataToUpsert(displayed_df, editor_state) ==
    [p \in AppliedPositions(displayed_df, editor_state) |->
        UpdateData(displayed_df, p, editor_state.edited_rows[p])]

\* "if deleted_indices:" ... "if ids_to_delete:" ... delete().in_('id', ids_to_delete)
DeleteOf(displayed_df, deleted_indices, valid, raises, delOk) ==
    IF deleted_indices = {} \/ (~raises /\ valid = {}) THEN <<>>
    ELSE <<[op |-> "delete", raises |-> raises, ok |-> delOk,
            ids |-> IF raises THEN {} ELSE IdsToDelete(displayed_df, valid),
            rows |-> <<>>, count |-> Cardinality(valid)]>>

DeleteFor(displayed_df, deleted_indices, valid, delOk) ==
    DeleteOf(displayed_df, deleted_indices, valid, IlocRaises(displayed_df, valid), delOk)

DeleteStep(displayed_df, editor_state, delOk) ==
    DeleteFor(displayed_df, editor_state.deleted_rows,
              ValidIndices(displayed_df, editor_state.deleted_rows), delOk)

\* the loop over edited_rows raises when an iloc or a coercion raises
BuildRaises(displayed_df, editor_state, applied) ==
    \/ IlocRaises(displayed_df, applied)
    \/ \E p \in applied :
            PayloadRaises(UpdateData(displayed_df, p, editor_state.edited_rows[p]))

\* "if edited_rows:" ... "if data_to_upsert:" ... upsert(data_to_upsert)
UpsertOf(displayed_df, editor_state, applied, raises, upsOk) ==
    IF DOMAIN editor_state.edited_rows = {} \/ (~raises /\ applied = {}) THEN <<>>
    ELSE <<[op |-> "upsert", raises |-> raises, ok |-> upsOk, ids |-> {},
            rows |-> IF raises THEN <<>> ELSE DataToUpsert(displayed_df, editor_state),
            count |-> Cardinality(applied)]>>

UpsertFor(displayed_df, editor_state, applied, upsOk) ==
    UpsertOf(displayed_df, editor_state, applied,
             BuildRaises(displayed_df, editor_state, applied), upsOk)

UpsertStep(displayed_df, editor_state, upsOk) ==
    UpsertFor(displayed_df, editor_state, AppliedPositions(displayed_df, editor_state), upsOk)

\* mutant: the two parts of the try block in the other order
Plan_UpsertFirst(displayed_df, editor_state, delOk, upsOk) ==
    UpsertStep(displayed_df, editor_state, upsOk) \o DeleteStep(displayed_df, editor_state, delOk)

\* the try block: "1. DELETE" and then "2. UPSERT/UPDATE"
Plan(displayed_df, editor_state, delOk, upsOk) ==
    DeleteStep(displayed_df, editor_state, delOk) \o UpsertStep(displayed_df, editor_state, upsOk)

Call(step) == [op |-> step.op, ids |-> step.ids, rows |-> step.rows, ok |-> step.ok]

\* one step of the try block: an exception leaves the later steps unexecuted
ExecStep(run, step) ==
    IF run.failed THEN run
    ELSE IF step.raises THEN [run EXCEPT !.failed = TRUE]
    ELSE IF ~step.ok THEN [run EXCEPT !.failed = TRUE, !.calls = @ \o <<Call(step)>>]
    ELSE [run EXCEPT
            !.calls = @ \o <<Call(step)>>,
            !.store = IF step.op = "delete" THEN ApplyDelete(@, step.ids)
                      ELSE ApplyUpsert(@, step.rows),
            !.deleted_count = IF step.op = "delete" THEN step.count ELSE @,
            !.updated_count = IF step.op = "upsert" THEN step.count ELSE @]

RECURSIVE Execute(_, _)
Execute(run, plan) ==
    IF plan = <<>> THEN run ELSE Execute(ExecStep(run, Head(plan)), Tail(plan))

\* mutant: "except Exception: pass"
OnException_Silent(run) ==
    [store |-> run.store, calls |-> run.calls, outcome |-> "silent",
     successful |-> FALSE, message |-> NoMessage, sets |-> FALSE]

\* except Exception as e: the message is set, the store is left as it is
OnException(run) ==
    [store |-> run.store, calls |-> run.calls, outcome |-> "failed",
     successful |-> TRUE, message |-> FailedMessage, sets |-> TRUE]

\* mutant: the message is stored without "if deleted_count > 0 or updated_count > 0"
OnCompletion_AlwaysReports(run) ==
    [store |-> run.store, calls |-> run.calls, outcome |-> "saved",
     successful |-> TRUE,
     message |-> SavedMessage(run.updated_count, run.deleted_count), sets |-> TRUE]

\* the end of the try block
OnCompletion(run) ==
    IF run.deleted_count > 0 \/ run.updated_count > 0
    THEN [store |-> run.store, calls |-> run.calls, outcome |-> "saved",
          successful |-> TRUE,
          message |-> SavedMessage(run.updated_count, run.deleted_count), sets |-> TRUE]
    ELSE [store |-> run.store, calls |-> run.calls, outcome |-> "silent",
          successful |-> FALSE, message |-> NoMessage, sets |-> FALSE]

Finish(run) == IF run.failed THEN OnException(run) ELSE OnCompletion(run)

\* result of a call: the store afterwards, the calls issued, and the session
\* state it sets (sets = FALSE: autosave_* are left as they were)
save_incremental_changes(displayed_df, editor_state, st, conn, delOk, upsOk) ==
    IF ~conn
    THEN [store |-> st, calls |-> <<>>, outcome |-> "noconn",
          successful |-> FALSE, message |-> NoMessage, sets |-> FALSE]
    ELSE Finish(Execute([store |-> st, calls |-> <<>>, failed |-> FALSE,
                         deleted_count |-> 0, updated_count |-> 0],
                        Plan(displayed_df, editor_state, delOk, upsOk)))

---------------------------------------------------------------------------
(* add_card *)

\* select("id").order("id", desc=True).limit(1), then new_id = int(max_id + 1)
\* mutant: the number of rows plus one
NextId_CountRows(st) == Cardinality(st) + 1

MaxIdOf(st) == IF st = {} THEN 0 ELSE Max(Ids(st))
NextId(st) == MaxIdOf(st) + 1

\* new_row_data
NewRowData(new_id, inp) ==
    [id |-> new_id, date |-> inp.date, price |-> inp.price,
     quantity |-> inp.quantity, card_set |-> inp.card_set]

\* result of a call: the store afterwards, whether the insert was issued and took
\* effect, and the id it carried
add_card(st, inp, conn, selOk, insOk) ==
    IF ~conn
    THEN [store |-> st, outcome |-> "noconn", issued |-> FALSE, new_id |-> 0]
    ELSE IF ~selOk
    THEN [store |-> st, outcome |-> "error", issued |-> FALSE, new_id |-> 0]
    ELSE IF ~insOk
    THEN [store |-> st, outcome |-> "error", issued |-> TRUE, new_id |-> NextId(st)]
    ELSE [store |-> st \cup {NewRowData(NextId(st), inp)}, outcome |-> "inserted",
          issued |-> TRUE, new_id |-> NextId(st)]

---------------------------------------------------------------------------
(* What the user can enter *)

\* the sidebar forms accept a submission only with price > 0 and quantity > 0;
\* date_in is a date object, written with strftime('%Y-%m-%d')
FormInputs ==
    {[date |-> D1, price |-> 100, quantity |-> 1, card_set |-> cs] : cs \in {"A", "B"}}

SetNeedles == {"", "B"}

\* positions the grid can have captured: every position of a view of MaxId rows,
\* and one more, which is past the end of every view
Positions == 0..MaxId

\* the changed cells of one grid row, as edited_rows reports them
EditableChanges ==
    { ("price" :> Num(990)),
      ("price" :> Num(50)),
      ("price" :> Num(-50)) @@ ("quantity" :> Num(-25)),
      ("price" :> Str("abc")),
      ("price" :> None) @@ ("quantity" :> None) @@ ("card_set" :> None) @@ ("date" :> None),
      ("date" :> Str(D2)) @@ ("card_set" :> Str("B")) @@ ("quantity" :> Num(25)),
      ("date" :> Str(Junk)) }

\* mutant: the column "id" without disabled=True, so that a row's changes can
\* hold an id
ChangeSets_IdEditable ==
    EditableChanges \cup {("id" :> Num(70)) @@ ("price" :> Num(990))}

\* column_config_dict: every column but "id" can be edited
ChangeSets == EditableChanges

EmptyEditor == [edited_rows |-> <<>>, deleted_rows |-> {}]

\* a plain change of the price cell
PlainChanges == {("price" :> Num(990)), ("price" :> Num(50))}

\* edited_rows of at most MaxEdits rows, at most MaxRich of them with a change
\* other than a plain one
EditedRows ==
    {e \in UNION {[ps -> ChangeSets] :
                    ps \in {q \in SUBSET Positions : Cardinality(q) <= MaxEdits}} :
        Cardinality({p \in DOMAIN e : e[p] \notin PlainChanges}) <= MaxRich}

EditorStates ==
    {[edited_rows |-> e, deleted_rows |-> d] :
        e \in EditedRows,
        d \in {q \in SUBSET Positions : Cardinality(q) <= MaxDeletes}}

\* editor_state and (editor_state.get("edited_rows") or editor_state.get("deleted_rows"))
Pending(editor_state) ==
    DOMAIN editor_state.edited_rows # {} \/ editor_state.deleted_rows # {}

---------------------------------------------------------------------------
(* The session *)

NoRecon == [ran |-> FALSE]
NoAdd == [ran |-> FALSE]

Init ==
    /\ supabase \in BOOLEAN
    /\ store = {}
    /\ response = <<>>
    /\ df = <<>>
    /\ search_set = ""
    /\ data_editor = EmptyEditor
    /\ autosave_successful = FALSE
    /\ autosave_message = NoMessage
    /\ pc = "rerun"
    /\ last = NoRecon
    /\ lastAdd = NoAdd
    /\ nSaves = 0

\* what the top of a script run computes: load_data() and the dropna on df
Loaded(selOk) == PrepareDf(load_data(supabase, selOk, SelectAll(store)))

\* the view a script run derives from the table st under the filter needle
ViewOf(st, needle) == DisplayDf(PrepareDf(load_data(TRUE, TRUE, SelectAll(st))), needle)

\* a submission of a sidebar form: add_card, then st.rerun()
Submit(inp, selOk, insOk) ==
    /\ pc = "idle"
    /\ NextId(store) <= MaxId
    /\ \E res \in {add_card(store, inp, supabase, selOk, insOk)} :
          /\ store' = res.store
          /\ lastAdd' = [ran |-> TRUE, pre |-> store, inp |-> inp, res |-> res]
    /\ pc' = "rerun"
    /\ last' = NoRecon
    /\ UNCHANGED <<supabase, response, df, search_set, data_editor,
                   autosave_successful, autosave_message, nSaves>>

\* the user types a series/version filter, or clears the filters
SetFilter(needle) ==
    /\ pc = "idle"
    /\ df # <<>>
    /\ needle # search_set
    /\ search_set' = needle
    /\ pc' = "rerun"
    /\ UNCHANGED <<supabase, store, response, df, data_editor, autosave_successful,
                   autosave_message, last, lastAdd, nSaves>>

\* the user edits or deletes rows of the grid: the widget state is captured
GridChange ==
    /\ pc = "idle"
    /\ nSaves < MaxSaves
    /\ DisplayDf(df, search_set) # <<>>
    /\ \E es \in EditorStates : Pending(es) /\ data_editor' = es
    /\ pc' = "rerun"
    /\ UNCHANGED <<supabase, store, response, df, search_set, autosave_successful,
                   autosave_message, last, lastAdd, nSaves>>

\* a script run that reaches the autosave trigger with a pending editor state:
\* the banner is shown and cleared, save_incremental_changes runs, st.rerun().
\* The code never clears st.session_state["data_editor"]: the grid widget owns it,
\* and starts afresh when the data it is given differs from the data it showed.
SaveRun(delOk, upsOk) ==
    /\ pc = "rerun"
    /\ Pending(data_editor)
    /\ \E d \in {Loaded(TRUE)} : \E view \in {DisplayDf(d, search_set)} :
       \E res \in {save_incremental_changes(view, data_editor, store, supabase, delOk, upsOk)} :
          /\ d # <<>>
          /\ df' = d
          /\ store' = res.store
          /\ autosave_successful' = (res.sets /\ res.successful)
          /\ autosave_message' = (IF res.sets THEN res.message ELSE NoMessage)
          /\ last' = [ran |-> TRUE, view |-> view, es |-> data_editor,
                      pre |-> store, res |-> res]
          /\ data_editor' = (IF ViewOf(res.store, search_set) = view
                              THEN data_editor ELSE EmptyEditor)
    /\ pc' = "rerun"
    /\ lastAdd' = NoAdd
    /\ UNCHANGED <<supabase, response, search_set>>

Autosave(delOk, upsOk) ==
    /\ nSaves < MaxSaves
    /\ SaveRun(delOk, upsOk)
    /\ nSaves' = nSaves + 1

\* a script run that ends without a save: the load failed, the table is empty,
\* or nothing is pending.  The banner is shown and cleared.
IdleRun(selOk) ==
    /\ pc = "rerun"
    /\ \E d \in {Loaded(selOk)} :
          /\ d = <<>> \/ ~Pending(data_editor)
          /\ df' = d
    /\ autosave_successful' = FALSE
    /\ autosave_message' = NoMessage
    /\ pc' = "idle"
    /\ last' = NoRecon
    /\ lastAdd' = NoAdd
    /\ UNCHANGED <<supabase, store, response, search_set, data_editor, nSaves>>

Next ==
    \/ \E inp \in FormInputs, selOk \in BOOLEAN, insOk \in BOOLEAN : Submit(inp, selOk, insOk)
    \/ \E needle \in SetNeedles : SetFilter(needle)
    \/ GridChange
    \/ \E delOk \in BOOLEAN, upsOk \in BOOLEAN : Autosave(delOk, upsOk)
    \/ \E selOk \in BOOLEAN : IdleRun(selOk)

Spec == Init /\ [][Next]_vars

---------------------------------------------------------------------------
(* The autosave cycle without a bound on the number of saves: one cell or one  *)
(* row of the displayed view is changed at a time, and st.rerun() always       *)
(* starts the next script run.                                                 *)

\* a new price for the row at position p of the view, or that row deleted
LiveEditorStates(view) ==
    {[edited_rows |-> (p :> c), deleted_rows |-> {}] :
        p \in 0..(Len(view) - 1),
        c \in {x \in PlainChanges : \A q \in 1..Len(view) : x["price"].n # view[q].price}}
      \cup {[edited_rows |-> <<>>, deleted_rows |-> {p}] : p \in 0..(Len(view) - 1)}

GridChangeLive ==
    /\ pc = "idle"
    /\ \E es \in LiveEditorStates(DisplayDf(df, search_set)) : data_editor' = es
    /\ pc' = "rerun"
    /\ UNCHANGED <<supabase, store, response, df, search_set, autosave_successful,
                   autosave_message, last, lastAdd, nSaves>>

\* nSaves counts the calls modulo MaxSaves + 1: two runs in a row differ
AutosaveLive(delOk, upsOk) ==
    /\ SaveRun(delOk, upsOk)
    /\ nSaves' = (nSaves + 1) % (MaxSaves + 1)

\* the script run that is due at pc = "rerun"
ScriptRun ==
    \/ \E selOk \in BOOLEAN : IdleRun(selOk)
    \/ \E delOk \in BOOLEAN, upsOk \in BOOLEAN : AutosaveLive(delOk, upsOk)

NextLive ==
    \/ \E inp \in FormInputs, selOk \in BOOLEAN, insOk \in BOOLEAN : Submit(inp, selOk, insOk)
    \/ \E needle \in SetNeedles : SetFilter(needle)
    \/ GridChangeLive
    \/ \E delOk \in BOOLEAN, upsOk \in BOOLEAN : AutosaveLive(delOk, upsOk)
    \/ \E selOk \in BOOLEAN : IdleRun(selOk)

\* Streamlit runs the script whenever a run is due; the user need not act
SpecLive == Init /\ [][NextLive]_vars /\ WF_vars(ScriptRun)

---------------------------------------------------------------------------
(* The loader on its own: load_data applied to any rows a select can return *)

\* id cells a table can hold: integers, a null, a text that is no number
RawIds == {PyInt(1), PyInt(2), PyInt(0), PyInt(-1), Str("x"), None}

RawRow(c) == [id |-> c, date |-> D1, price |-> 100, quantity |-> 1, card_set |-> "A"]

RawResponses == UNION {[1..n -> {RawRow(c) : c \in RawIds}] : n \in 1..MaxRows}

InitLoad ==
    /\ supabase = TRUE
    /\ store = {}
    /\ response \in RawResponses
    /\ df = <<>>
    /\ search_set = ""
    /\ data_editor = EmptyEditor
    /\ autosave_successful = FALSE
    /\ autosave_message = NoMessage
    /\ pc = "rerun"
    /\ last = NoRecon
    /\ lastAdd = NoAdd
    /\ nSaves = 0

\* df = load_data() on the rows of response
LoadData ==
    /\ pc = "rerun"
    /\ df' = load_data(supabase, TRUE, response)
    /\ pc' = "idle"
    /\ UNCHANGED <<supabase, store, response, search_set, data_editor,
                   autosave_successful, autosave_message, last, lastAdd, nSaves>>

NextLoad == LoadData

SpecLoad == InitLoad /\ [][NextLoad]_vars

---------------------------------------------------------------------------
(* Properties.  They read the record last of the latest reconciliation: the  *)
(* view and editor state it was called with, the table before it, and what   *)
(* it returned.                                                              *)

\* positions of the latest reconciliation, read off its arguments alone
InRange(p) == p < Len(last.view)
KeyAt(p) == last.view[p + 1].id
DeletedInRange == {p \in last.es.deleted_rows : InRange(p)}
EditedNotDeleted == {p \in DOMAIN last.es.edited_rows : p \notin last.es.deleted_rows /\ InRange(p)}
OutOfRange == {p \in DOMAIN last.es.edited_rows \cup last.es.deleted_rows : ~InRange(p)}
DeleteKeys == {KeyAt(p) : p \in DeletedInRange}

\* the store calls the latest reconciliation issued
CallsOf(op) == {i \in 1..Len(last.res.calls) : last.res.calls[i].op = op}
CallAt(i) == last.res.calls[i]
UpsertKeys(i) == {CallAt(i).rows[p]["id"].n : p \in DOMAIN CallAt(i).rows}
\* an edited value of column c that float() or int() rejects
Uncoercible(c, v) ==
    \/ c = "price" /\ pd_notna(v) /\ py_float(v) = Raise
    \/ c = "quantity" /\ pd_notna(v) /\ py_int(v) = Raise
BadCells(p) == {c \in DOMAIN last.es.edited_rows[p] : Uncoercible(c, last.es.edited_rows[p][c])}
Fallback(c) == CASE c = "price" -> PyFloat(0) [] c = "quantity" -> PyInt(0) [] OTHER -> Str("")

\* C1: a position present in both edited_rows and deleted_rows never gets its
\* row's key into the upsert batch, and no upsert batch carries a key that a
\* delete call of the same reconciliation carries.
C1_DeleteWins ==
    last.ran =>
        /\ \A p \in DOMAIN last.es.edited_rows \cap last.es.deleted_rows :
              InRange(p) => \A i \in CallsOf("upsert") : KeyAt(p) \notin UpsertKeys(i)
        /\ \A i \in CallsOf("upsert"), j \in CallsOf("delete") :
              UpsertKeys(i) \cap CallAt(j).ids = {}

\* a reconciliation in which a row is both edited and deleted while another
\* row is edited: the delete and the upsert are both issued
C1_Witness ==
    /\ last.ran
    /\ \E p \in DOMAIN last.es.edited_rows \cap last.es.deleted_rows : InRange(p)
    /\ CallsOf("upsert") # {}
    /\ CallsOf("delete") # {}
    /\ last.res.outcome = "saved"

\* C2: every snapshot of load_data has pairwise distinct positive ids, and when
\* the stored ids hold a duplicate, a zero, a negative or a non-number the
\* snapshot's ids are 1..N in the order of the input.
StoredIdsNeedRepair ==
    \/ \E i \in 1..Len(response) : response[i].id.t # "int" \/ response[i].id.n <= 0
    \/ \E i, j \in 1..Len(response) : i # j /\ response[i].id = response[j].id
C2_IdUniquenessAfterLoad ==
    (pc = "idle" /\ response # <<>>) =>
        /\ Len(df) = Len(response)
        /\ \A i \in 1..Len(df) : df[i].id > 0
        /\ \A i, j \in 1..Len(df) : i # j => df[i].id # df[j].id
        /\ StoredIdsNeedRepair => \A i \in 1..Len(df) : df[i].id = i

\* C3: a position past the end of the view causes no error, no delete and no
\* upsert, and the in-range entries of the same editor state are applied: a
\* failure is always due to a failed store call or a coercion, and a call that is
\* issued carries exactly the keys of the in-range positions.
C3_OutOfRangeTolerance ==
    (last.ran /\ OutOfRange # {}) =>
        /\ last.res.outcome = "failed" =>
              \/ \E i \in 1..Len(last.res.calls) : ~CallAt(i).ok
              \/ \E p \in EditedNotDeleted : BadCells(p) # {}
        /\ \A i \in CallsOf("delete") : CallAt(i).ids = DeleteKeys
        /\ \A i \in CallsOf("upsert") : DOMAIN CallAt(i).rows = EditedNotDeleted
        /\ last.res.outcome # "failed" =>
              /\ DeleteKeys # {} => CallsOf("delete") # {}
              /\ EditedNotDeleted # {} => CallsOf("upsert") # {}
              /\ DeleteKeys \cap Ids(last.res.store) = {}

\* an editor state with an edit past the end of the view, an edit in range and
\* a delete in range: both calls are issued and the save is reported
C3_Witness ==
    /\ last.ran
    /\ \E p \in DOMAIN last.es.edited_rows : ~InRange(p)
    /\ EditedNotDeleted # {}
    /\ DeleteKeys # {}
    /\ last.res.outcome = "saved"
    /\ last.res.message = SavedMessage(1, 1)

\* C4: an edited value that cannot be coerced is written as the fallback of its
\* type; no failure is reported and the upsert batch with that row and every
\* other edited row is issued.
C4_CoercionFallback ==
    (last.ran /\ \A i \in CallsOf("delete") : CallAt(i).ok) =>
        \A p \in EditedNotDeleted : \A c \in BadCells(p) :
            /\ last.res.outcome # "failed" \/ \E i \in CallsOf("upsert") : ~CallAt(i).ok
            /\ \E i \in CallsOf("upsert") :
                  /\ DOMAIN CallAt(i).rows = EditedNotDeleted
                  /\ CallAt(i).rows[p][c] = Fallback(c)

\* C5: one reconciliation issues at most one delete call and at most one upsert
\* call, and an upsert call comes after a delete call that has returned.
C5_DeleteBeforeUpsert ==
    last.ran =>
        /\ Cardinality(CallsOf("delete")) <= 1
        /\ Cardinality(CallsOf("upsert")) <= 1
        /\ \A i \in CallsOf("upsert"), j \in CallsOf("delete") : j < i /\ CallAt(j).ok

\* a reconciliation that issues both calls
C5_Witness ==
    /\ last.ran
    /\ Len(last.res.calls) = 2
    /\ CallAt(1).op = "delete"
    /\ CallAt(2).op = "upsert"
    /\ CallAt(2).ok

\* C6: a failed store call is turned into a failure message in session state,
\* and what an earlier call did stays: after a delete that succeeded and an
\* upsert that failed, the deleted rows are gone, no other row has changed, and
\* a failure, not a success, is reported; after a failed delete nothing has
\* changed and no upsert is issued.
C6_NoRaiseNoRollback ==
    (last.ran /\ \E i \in 1..Len(last.res.calls) : ~CallAt(i).ok) =>
        /\ last.res.outcome = "failed"
        /\ autosave_successful
        /\ autosave_message = FailedMessage
        /\ \A i \in 1..Len(last.res.calls) : ~CallAt(i).ok => i = Len(last.res.calls)
        /\ store = last.res.store
        /\ IF \E j \in CallsOf("delete") : CallAt(j).ok
           THEN store = {r \in last.pre : r.id \notin DeleteKeys} /\ DeleteKeys # {}
           ELSE store = last.pre

\* a delete that succeeded followed by an upsert that failed
C6_Witness ==
    /\ last.ran
    /\ Len(last.res.calls) = 2
    /\ CallAt(1).op = "delete" /\ CallAt(1).ok
    /\ CallAt(2).op = "upsert" /\ ~CallAt(2).ok
    /\ store # last.pre
    /\ autosave_message = FailedMessage

\* C7: every payload of an upsert batch has an id and a date, and where 'date'
\* is not among the changed fields the date is the original date of the view
\* row at that position.
C7_SeededPayload ==
    last.ran =>
        \A i \in CallsOf("upsert") : \A p \in DOMAIN CallAt(i).rows :
            /\ {"id", "date"} \subseteq DOMAIN CallAt(i).rows[p]
            /\ "date" \notin DOMAIN last.es.edited_rows[p] =>
                  CallAt(i).rows[p]["date"] = Str(iloc(last.view, p).date)

\* scenario B: the view holds ids 3, 2, 1; position 1 is deleted, positions 0
\* and 2 get a new price: key 2 is deleted, keys 3 and 1 are upserted with the
\* new price and their original date
C7_Witness ==
    /\ last.ran
    /\ Len(last.view) = 3
    /\ last.es.deleted_rows = {1}
    /\ DOMAIN last.es.edited_rows = {0, 2}
    /\ last.es.edited_rows[0] = ("price" :> Num(990))
    /\ last.es.edited_rows[2] = ("price" :> Num(50))
    /\ Len(last.res.calls) = 2
    /\ CallAt(1).ids = {2}
    /\ CallAt(2).rows[0] = ("id" :> PyInt(3)) @@ ("date" :> Str(D1)) @@ ("price" :> PyFloat(990))
    /\ CallAt(2).rows[2] = ("id" :> PyInt(1)) @@ ("date" :> Str(D1)) @@ ("price" :> PyFloat(50))
    /\ last.res.outcome = "saved"

\* C8: a reconciliation never adds an id to the table, and the ids gone after it
\* are exactly the keys of the in-range deleted positions when its delete call
\* completed, and none otherwise.
C8_NoRecordCreatedByReconcile ==
    last.ran =>
        /\ Ids(last.res.store) \subseteq Ids(last.pre)
        /\ Cardinality(last.res.store) <= Cardinality(last.pre)
        /\ Ids(last.pre) \ Ids(last.res.store) =
              IF \E j \in CallsOf("delete") : CallAt(j).ok THEN DeleteKeys ELSE {}

\* a reconciliation that deletes one row and updates another
C8_Witness ==
    /\ last.ran
    /\ last.res.outcome = "saved"
    /\ Cardinality(Ids(last.pre) \ Ids(last.res.store)) = 1
    /\ CallsOf("upsert") # {}
    /\ Cardinality(last.pre) = 3

\* C9: an insert of add_card carries the largest id of the table plus one, or 1
\* for an empty table; that id is not in the table, and the ids of the table
\* stay pairwise distinct.
C9_IdentityAllocation ==
    /\ Cardinality(store) = Cardinality(Ids(store))
    /\ (lastAdd.ran /\ lastAdd.res.issued) =>
          /\ lastAdd.res.new_id =
                IF lastAdd.pre = {} THEN 1 ELSE Max(Ids(lastAdd.pre)) + 1
          /\ lastAdd.res.new_id \notin Ids(lastAdd.pre)
    /\ (lastAdd.ran /\ lastAdd.res.outcome = "inserted") =>
          Ids(store) = Ids(lastAdd.pre) \cup {lastAdd.res.new_id}

\* an insert into a table whose only row has id 2 (id 1 was deleted) gets id 3
C9_Witness ==
    /\ lastAdd.ran
    /\ lastAdd.res.outcome = "inserted"
    /\ Ids(lastAdd.pre) = {2}
    /\ lastAdd.res.new_id = 3

\* C10: every edited price of an upsert payload is a float >= 0 and every edited
\* quantity an integer >= 0, so no stored price or quantity is negative.
C10_NonNegativeWriteBack ==
    /\ \A r \in store : r.price >= 0 /\ r.quantity >= 0
    /\ last.ran =>
          \A i \in CallsOf("upsert") : \A p \in DOMAIN CallAt(i).rows :
              /\ "price" \in DOMAIN CallAt(i).rows[p] =>
                    CallAt(i).rows[p]["price"].t = "float" /\ CallAt(i).rows[p]["price"].n >= 0
              /\ "quantity" \in DOMAIN CallAt(i).rows[p] =>
                    CallAt(i).rows[p]["quantity"].t = "int" /\ CallAt(i).rows[p]["quantity"].n >= 0

\* dates in the form YYYY-MM-DD
CanonicalDates == {D1, D2, Today}
IsCanonical(v) == v.t = "str" /\ v.s \in CanonicalDates

\* C11: the date of every insert of add_card and of every upsert payload is a
\* YYYY-MM-DD string, and an edited date value that is not one is discarded: the
\* payload then carries the original date of the view row.
C11_CanonicalDateOnWire ==
    /\ (lastAdd.ran /\ lastAdd.res.issued) => lastAdd.inp.date \in CanonicalDates
    /\ last.ran =>
          \A i \in CallsOf("upsert") : \A p \in DOMAIN CallAt(i).rows :
              /\ IsCanonical(CallAt(i).rows[p]["date"])
              /\ ("date" \in DOMAIN last.es.edited_rows[p]
                    /\ ~IsCanonical(last.es.edited_rows[p]["date"])) =>
                    CallAt(i).rows[p]["date"] = Str(iloc(last.view, p).date)

\* C12: the id of every upsert payload is the integer id of the view row at its
\* position, whichever cells of the row were changed; after the reconciliation
\* every record that was not deleted is in the table under the id it had, and the
\* record that carries a payload's id holds that payload's values.
C12_IdImmutability ==
    last.ran =>
        /\ \A i \in CallsOf("upsert") : \A p \in DOMAIN CallAt(i).rows :
              /\ CallAt(i).rows[p]["id"] = PyInt(iloc(last.view, p).id)
              /\ CallAt(i).ok =>
                    \E r \in last.res.store :
                        /\ r.id = iloc(last.view, p).id
                        /\ r = Merge(CHOOSE q \in last.pre : q.id = r.id, CallAt(i).rows[p])
        /\ Ids(last.pre) \ DeleteKeys \subseteq Ids(last.res.store)
        /\ Ids(last.res.store) \subseteq Ids(last.pre)

\* a reconciliation that changes the date, the set and the quantity of the row
\* with id 2 of a table with ids 1, 2, 3: the ids of the table are as before
C12_Witness ==
    /\ last.ran
    /\ last.res.outcome = "saved"
    /\ Ids(last.pre) = {1, 2, 3}
    /\ Ids(store) = {1, 2, 3}
    /\ \E i \in CallsOf("upsert") : \E p \in DOMAIN CallAt(i).rows :
          /\ CallAt(i).rows[p]["id"] = PyInt(2)
          /\ {"date", "card_set", "quantity"} \subseteq DOMAIN last.es.edited_rows[p]
          /\ \E r \in store : r.id = 2 /\ r.date = D2 /\ r.quantity = 2

\* the record of the table before the latest reconciliation that has the id k
PreRecord(k) == CHOOSE q \in last.pre : q.id = k
ViewKeys == {last.view[i].id : i \in 1..Len(last.view)}
EditKeys == {KeyAt(p) : p \in EditedNotDeleted}

\* C14: in a reconciliation with deletes and edits, the delete call carries the
\* ids of the rows at the deleted positions of the view as displayed, and the
\* payload of an edited position p carries the id of row p of that same view,
\* however many deleted positions come before p; the values of the edit reach
\* the record of that id and no other record.
C14_SameViewResolution ==
    (last.ran /\ last.es.deleted_rows # {} /\ DOMAIN last.es.edited_rows # {}) =>
        /\ \A j \in CallsOf("delete") :
              CallAt(j).ids = {last.view[p + 1].id : p \in DeletedInRange}
        /\ \A i \in CallsOf("upsert") : \A p \in DOMAIN CallAt(i).rows :
              CallAt(i).rows[p]["id"].n = last.view[p + 1].id
        /\ last.res.outcome = "saved" =>
              \A p \in EditedNotDeleted : \E i \in CallsOf("upsert") :
                  Merge(PreRecord(KeyAt(p)), CallAt(i).rows[p]) \in last.res.store
        /\ \A r \in last.res.store : r.id \notin EditKeys => r \in last.pre

\* the view holds ids 3, 2, 1; position 0 is deleted and position 1 gets a new
\* price: key 3 is deleted and the price reaches key 2, not key 1
C14_Witness ==
    /\ last.ran
    /\ Len(last.view) = 3
    /\ last.es.deleted_rows = {0}
    /\ DOMAIN last.es.edited_rows = {1}
    /\ last.es.edited_rows[1] = ("price" :> Num(990))
    /\ last.res.outcome = "saved"
    /\ Ids(store) = {1, 2}
    /\ \E r \in store : r.id = 2 /\ r.price = 990
    /\ \E r \in store : r.id = 1 /\ r.price = 100

\* C15: a reconciliation leaves every record as it was whose id is neither the
\* key of an in-range deleted position nor the key of an applied edited position;
\* records that the filter keeps out of the view are all left as they were; and
\* when no position of the editor state is in range the table is left as it was,
\* no call is issued and no message is stored.
C15_FrameOfReconciliation ==
    last.ran =>
        /\ \A r \in last.pre : r.id \notin DeleteKeys \cup EditKeys => r \in last.res.store
        /\ \A r \in last.pre : r.id \notin ViewKeys => r \in last.res.store
        /\ (DeletedInRange = {} /\ EditedNotDeleted = {}) =>
              /\ last.res.store = last.pre
              /\ last.res.calls = <<>>
              /\ ~last.res.sets
              /\ autosave_message = NoMessage
              /\ ~autosave_successful

\* under the filter "B" the view shows one of three records; its row is edited
\* and saved while the two records outside the view stay as they were
C15_Witness ==
    /\ last.ran
    /\ search_set = "B"
    /\ Len(last.view) = 1
    /\ Cardinality(last.pre) = 3
    /\ last.res.outcome = "saved"
    /\ CallsOf("upsert") # {}
    /\ store # last.pre
    /\ {r \in last.pre : r.id \notin ViewKeys} \subseteq store

\* C13: after every call of save_incremental_changes the script comes to a run
\* that ends without a save and without st.rerun(), so the page is idle.
C13_ReturnToIdle == [](last.ran => <>(pc = "idle"))

====
